---------------------------- MODULE Spec2Model ----------------------------
(***************************************************************************)
(* ClickUpMCPSSEClient (src/src/client/sse-client.ts): the pending-request *)
(* table, the request deadline timers, the side-channel POST, the event    *)
(* stream with its reconnect supervisor and heartbeat, connect() /         *)
(* disconnect(), and the event listeners (on, off, emit).  Every handler   *)
(* runs to completion on the event loop, so each handler is one action.    *)
(* Timers are abstract: an armed timer may fire at any later moment.       *)
(* ClickUpMCPClient (same file): the transport, the active sub-client and  *)
(* the sub-client each call is handed to.                                  *)
(***************************************************************************)
EXTENDS Integers, Sequences, FiniteSets, TLC

\* ------------------------------------------------------------------ bounds
MaxReq == 2
MaxConnect == 2
MaxErrors == 1
MaxErrorsBackoff == 6
MainRetries == 1
MaxReqFair == 1
MaxListeners == 2
MaxMalformed == 1
MaxSwitch == 2
MaxClientSwitch == 1
MaxN8NConnect == 2

\* ------------------------------------------------------- program constants
DefaultRetries == 3
BaseDelay == 1000
MaxDelay == 30000

\* ------------------------------------------------------------ input values
\* values Date.now() may return when an id is generated (a wall clock: it may
\* repeat within a millisecond and may step backwards)
Clock == {7, 12}
\* the value Date.now() returns when lastHeartbeat is written
HeartbeatClock == {12}
\* result payloads and error messages carried by inbound frames
Results == {"spaces"}
FrameErrors == {"remote failure"}
\* messages of the errors axios raises for a failed POST
PostErrors == {"Network Error"}
Null == "null"
Absent == "absent"
\* a frame without an id (undefined or empty: falsy in `data.id &&`)
NoId == <<>>
\* a frame id that generateRequestId never returned
UnknownId == <<"u">>
\* an event payload that JSON.parse rejects
Malformed == "malformed"
RetryChoices == {0, DefaultRetries, 5}
\* the events emit() is called with
EventNames == {"message", "error", "heartbeat", "notification", "log"}
\* the callbacks a caller registers: one that returns, one that throws, one
\* that removes itself (off) and one that registers "plain" for the same
\* event (on) while fewer than MaxListeners are registered
Listeners == {"plain", "thrower", "once", "adder"}

VARIABLES
    requestIdCounter,   \* this.requestIdCounter
    callId,             \* requestId of the n-th sendRequest call (closure const)
    pendingRequests,    \* this.pendingRequests: id -> the call whose closures the entry holds
    timers,             \* calls whose deadline timer (closure `timeout`) is armed
    post,               \* per call, the state of httpClient.post('/request')
    promise,            \* per call, the promise sendRequest returned
    metrics,            \* this.metrics (the three counters)
    retries,            \* this.config.retries
    eventSource,        \* this.eventSource, with the stream's readyState
    connected,          \* this.connectionState.connected
    errorCount,         \* this.connectionState.errorCount
    reconnectAttempts,  \* this.connectionState.reconnectAttempts
    reconnectTimer,     \* delay of the armed reconnect timer, or NoTimer
    heartbeatTimer,     \* whether the heartbeat interval is armed
    lastHeartbeat,      \* this.connectionState.lastHeartbeat, NoHeartbeat for undefined
    liveIntervals,      \* number of heartbeat intervals set and not cleared
    connectCall,        \* per connect() call, where it stands and how its promise settled
    connTimeout,        \* connect() calls whose 10 s timer is armed
    pollTimer,          \* connect() calls whose 100 ms checkConnection timer is armed
    staleConnect,       \* history: connect() calls that awaited their probe when disconnect() last ran
    lastEmit,           \* the event most recently passed to emit()
    eventListeners,     \* this.eventListeners: event -> the array of listeners
    lastDispatch,       \* the listeners the latest emit() invoked, and whether it threw
    parseErrors,        \* number of 'Failed to parse SSE message' lines logged
    transport,          \* ClickUpMCPClient.transport
    activeClient,       \* ClickUpMCPClient.activeClient
    switchCall,         \* per switchTransport() call, where it stands
    lastCall,           \* the latest call on ClickUpMCPClient and where it went
    clientConnected,    \* the sub-clients whose latest connect()/disconnect() left them connected
    n8nConnected,       \* ClickUpMCPN8NClient: whether its latest connect()/disconnect() left it connected
    n8nListeners,       \* the 'notification' listeners on its SSE client, each named by the trigger it fires
    workflowTriggers,   \* the trigger ids that have a handler
    n8nTriggered        \* the latest notification and the handlers it invoked, in order

reqVars == <<requestIdCounter, callId, pendingRequests, timers, post, promise, metrics>>
connVars == <<retries, eventSource, connected, errorCount, reconnectAttempts,
              reconnectTimer, heartbeatTimer>>
callVars == <<connectCall, connTimeout, pollTimer, staleConnect>>
emitVars == <<lastEmit, eventListeners, lastDispatch>>
logVars == <<parseErrors>>
unifiedVars == <<transport, activeClient, switchCall, lastCall, clientConnected>>
beatVars == <<lastHeartbeat, liveIntervals>>
sseVars == <<reqVars, connVars, callVars, emitVars, logVars, beatVars>>
n8nVars == <<n8nConnected, n8nListeners, workflowTriggers, n8nTriggered>>
vars == <<sseVars, unifiedVars, n8nVars>>

Calls == 1..MaxReq
ConnectCalls == 1..MaxConnect
NoTimer == 0
NoHeartbeat == 0
NoEmit == [event |-> "none", id |-> NoId, error |-> Null, result |-> Null]
\* emit(event, data): the event handed to the listeners of `event`
Emit(event) == [event |-> event, id |-> NoId, error |-> Null, result |-> Null]
EmitFrame(f) == [event |-> "message", id |-> f.id, error |-> f.error, result |-> f.result]


\* --------------------------------------------------------------- listeners
NoDispatch == [invoked |-> <<>>, threw |-> FALSE]

\* listeners.indexOf(listener): the first position holding it, 0 for -1
IndexOf(arr, l) ==
    IF \E i \in 1..Len(arr) : arr[i] = l
    THEN CHOOSE i \in 1..Len(arr) : arr[i] = l /\ \A j \in 1..(i - 1) : arr[j] # l
    ELSE 0

\* listeners.splice(index, 1)
Splice(arr, i) == SubSeq(arr, 1, i - 1) \o SubSeq(arr, i + 1, Len(arr))

\* on(event, listener) and off(event, listener) on the event's array (an event
\* without an array behaves as one with an empty array in on, off and emit)
OnArray(arr, l) == Append(arr, l)
OffArray(arr, l) == IF IndexOf(arr, l) > 0 THEN Splice(arr, IndexOf(arr, l)) ELSE arr

\* what running listener l does to the array of the event being dispatched
ListenerBody(l, arr) ==
    CASE l = "once" -> OffArray(arr, l)
      [] l = "adder" -> IF Len(arr) < MaxListeners THEN OnArray(arr, "plain") ELSE arr
      [] OTHER -> arr

\* a faulty variant: the callback without its try/catch
InvokeListenerUncaught(l, r) ==
    [arr |-> ListenerBody(l, r.arr), invoked |-> Append(r.invoked, l),
     threw |-> (l = "thrower")]

\* the callback handed to forEach: try { listener(data) } catch { log }
InvokeListener(l, r) ==
    [arr |-> ListenerBody(l, r.arr), invoked |-> Append(r.invoked, l), threw |-> FALSE]

\* Array.prototype.forEach over the live array: the length is read once, an
\* index no longer present is skipped, an exception leaving the callback ends
\* the loop
RECURSIVE ForEach(_, _, _)
ForEach(r, k, len) ==
    IF k > len \/ r.threw THEN r
    ELSE IF k > Len(r.arr) THEN ForEach(r, k + 1, len)
    ELSE ForEach(InvokeListener(r.arr[k], r), k + 1, len)

Dispatch(arr) == ForEach([arr |-> arr, invoked |-> <<>>, threw |-> FALSE], 1, Len(arr))

\* emit(event, data) with data the payload
EmitTo(event, payload) ==
    LET r == Dispatch(eventListeners[event]) IN
    /\ lastEmit' = payload
    /\ eventListeners' = [eventListeners EXCEPT ![event] = r.arr]
    /\ lastDispatch' = [invoked |-> r.invoked, threw |-> r.threw]

RECURSIVE SumLen(_, _)
SumLen(f, S) ==
    IF S = {} THEN 0
    ELSE LET e == CHOOSE x \in S : TRUE IN Len(f[e]) + SumLen(f, S \ {e})

\* on(event, listener), while fewer than MaxListeners listeners are registered
On(event, l) ==
    /\ SumLen(eventListeners, EventNames) < MaxListeners
    /\ eventListeners' = [eventListeners EXCEPT ![event] = OnArray(@, l)]
    /\ UNCHANGED <<reqVars, connVars, callVars, lastEmit, lastDispatch, logVars, beatVars, unifiedVars, n8nVars>>

\* off(event, listener)
Off(event, l) ==
    /\ eventListeners' = [eventListeners EXCEPT ![event] = OffArray(@, l)]
    /\ UNCHANGED <<reqVars, connVars, callVars, lastEmit, lastDispatch, logVars, beatVars, unifiedVars, n8nVars>>

\* --------------------------------------------------------------- id format
DigitChar(d) == <<"0", "1", "2", "3", "4", "5", "6", "7", "8", "9">>[d + 1]

RECURSIVE Digits(_)
\* the decimal digits of n >= 0, as a template literal prints a number
Digits(n) ==
    IF n < 10 THEN <<DigitChar(n)>> ELSE Digits(n \div 10) \o <<DigitChar(n % 10)>>

\* a faulty variant: the id built from the timestamp alone
GenerateRequestIdNoCounter(now, counter) ==
    <<"req_">> \o Digits(now)

\* `req_${Date.now()}_${++this.requestIdCounter}`, counter already incremented
GenerateRequestId(now, counter) ==
    <<"req_">> \o Digits(now) \o <<"_">> \o Digits(counter)

\* ---------------------------------------------------------------- promises
PendingP == [state |-> "pending", success |-> Absent, data |-> Absent, error |-> Absent]
Unsent == [state |-> "unsent", success |-> Absent, data |-> Absent, error |-> Absent]
ResolvedOk(d) == [state |-> "resolved", success |-> "true", data |-> d, error |-> Absent]
ResolvedFail(m) == [state |-> "resolved", success |-> "false", data |-> Absent, error |-> m]
RejectedP(m) == [state |-> "rejected", success |-> Absent, data |-> Absent, error |-> m]

\* resolve(v) / reject(e) of a promise: the first settlement wins, later calls do nothing
Settle(p, n, outcome) ==
    IF p[n].state = "pending" THEN [p EXCEPT ![n] = outcome] ELSE p

\* updateMetrics(success, responseTime): the counters
UpdateMetrics(m, success) ==
    [total |-> m.total + 1,
     ok |-> IF success THEN m.ok + 1 ELSE m.ok,
     failed |-> IF success THEN m.failed ELSE m.failed + 1]

\* Map.delete(id)
MapDelete(map, id) == [x \in (DOMAIN map) \ {id} |-> map[x]]
\* Map.set(id, n)
MapSet(map, id, n) == [x \in (DOMAIN map) \cup {id} |-> IF x = id THEN n ELSE map[x]]

\* ------------------------------------------------------------- sendRequest
\* a faulty variant: the POST leaves before the entry is put in the table
SendRequestUnregistered(now, max) ==
    /\ requestIdCounter < max
    /\ LET n == requestIdCounter + 1
           id == GenerateRequestId(now, n)
       IN /\ requestIdCounter' = n
          /\ callId' = [callId EXCEPT ![n] = id]
          /\ timers' = timers \cup {n}
          /\ pendingRequests' = pendingRequests
          /\ post' = [post EXCEPT ![n] = "inflight"]
          /\ promise' = [promise EXCEPT ![n] = PendingP]
    /\ UNCHANGED <<metrics, connVars, callVars, emitVars, logVars, beatVars, unifiedVars, n8nVars>>

\* sendRequest(method, params) up to the return of the promise: the id, the
\* deadline timer, the table entry and the POST, with no suspension in between
SendRequest(now, max) ==
    /\ requestIdCounter < max
    /\ LET n == requestIdCounter + 1
           id == GenerateRequestId(now, n)
       IN /\ requestIdCounter' = n
          /\ callId' = [callId EXCEPT ![n] = id]
          /\ timers' = timers \cup {n}
          /\ pendingRequests' = MapSet(pendingRequests, id, n)
          /\ post' = [post EXCEPT ![n] = "inflight"]
          /\ promise' = [promise EXCEPT ![n] = PendingP]
    /\ UNCHANGED <<metrics, connVars, callVars, emitVars, logVars, beatVars, unifiedVars, n8nVars>>

\* a faulty variant: the deadline callback forgets the caller
TimeoutCallbackNoReject(n) ==
    /\ pendingRequests' = MapDelete(pendingRequests, callId[n])
    /\ promise' = promise

\* the body of the deadline timer's callback
TimeoutCallback(n) ==
    /\ pendingRequests' = MapDelete(pendingRequests, callId[n])
    /\ promise' = Settle(promise, n, RejectedP("Request timeout"))

\* the deadline timer of call n fires
TimeoutFire(n) ==
    /\ n \in timers
    /\ timers' = timers \ {n}
    /\ TimeoutCallback(n)
    /\ UNCHANGED <<requestIdCounter, callId, post, metrics, connVars, callVars, emitVars, logVars, beatVars, unifiedVars, n8nVars>>

\* the POST of call n got its response: the body is ignored
PostOk(n) ==
    /\ post[n] = "inflight"
    /\ post' = [post EXCEPT ![n] = "ok"]
    /\ UNCHANGED <<requestIdCounter, callId, pendingRequests, timers, promise, metrics,
                   connVars, callVars, emitVars, logVars, beatVars, unifiedVars, n8nVars>>

\* a faulty variant: the catch handler leaves the entry and its timer in place
PostCatchKeepsEntry(n, msg) ==
    /\ pendingRequests' = pendingRequests
    /\ timers' = timers
    /\ metrics' = UpdateMetrics(metrics, FALSE)
    /\ promise' = Settle(promise, n, ResolvedFail(msg))

\* the .catch handler of the POST
PostCatch(n, msg) ==
    /\ pendingRequests' = MapDelete(pendingRequests, callId[n])
    /\ timers' = timers \ {n}
    /\ metrics' = UpdateMetrics(metrics, FALSE)
    /\ promise' = Settle(promise, n, ResolvedFail(msg))

\* the POST of call n failed (network error, non-2xx status, axios timeout)
PostFail(n, msg) ==
    /\ post[n] = "inflight"
    /\ post' = [post EXCEPT ![n] = "failed"]
    /\ PostCatch(n, msg)
    /\ UNCHANGED <<requestIdCounter, callId, connVars, callVars, emitVars, logVars, beatVars, unifiedVars, n8nVars>>

\* ---------------------------------------------------------- inbound frames
Matches(f) == f.id # NoId /\ f.id \in DOMAIN pendingRequests

\* a faulty variant: the entry of a matched frame stays in the table
MatchedFrameKeepsEntry(f) ==
    LET n == pendingRequests[f.id]
    IN /\ timers' = timers \ {n}
       /\ pendingRequests' = pendingRequests
       /\ IF f.error # Null
          THEN /\ metrics' = UpdateMetrics(metrics, FALSE)
               /\ promise' = Settle(promise, n, ResolvedFail(f.error))
          ELSE /\ metrics' = UpdateMetrics(metrics, TRUE)
               /\ promise' = Settle(promise, n, ResolvedOk(f.result))
       /\ UNCHANGED emitVars

\* handleSSEMessage, the branch of a frame whose id is in the table
MatchedFrame(f) ==
    LET n == pendingRequests[f.id]
    IN /\ timers' = timers \ {n}
       /\ pendingRequests' = MapDelete(pendingRequests, f.id)
       /\ IF f.error # Null
          THEN /\ metrics' = UpdateMetrics(metrics, FALSE)
               /\ promise' = Settle(promise, n, ResolvedFail(f.error))
          ELSE /\ metrics' = UpdateMetrics(metrics, TRUE)
               /\ promise' = Settle(promise, n, ResolvedOk(f.result))
       /\ UNCHANGED emitVars

\* a faulty variant: an unmatched frame is reported as an 'error' event
UnsolicitedFrameAsError(f) ==
    /\ lastEmit' = [EmitFrame(f) EXCEPT !.event = "error"]
    /\ UNCHANGED <<eventListeners, lastDispatch>>
    /\ UNCHANGED <<pendingRequests, timers, promise, metrics>>

\* handleSSEMessage, the else branch
UnsolicitedFrame(f) ==
    /\ EmitTo("message", EmitFrame(f))
    /\ UNCHANGED <<pendingRequests, timers, promise, metrics>>

HandleSSEMessage(f) ==
    IF Matches(f) THEN MatchedFrame(f) ELSE UnsolicitedFrame(f)

\* the frames the server may push: any id issued so far, no id, an unknown id
FrameIds == {callId[n] : n \in 1..requestIdCounter} \cup {NoId, UnknownId}
Frames ==
    [id : FrameIds, error : {Null}, result : Results]
        \cup [id : FrameIds, error : FrameErrors, result : {Null}]

\* eventSource.onmessage with a payload that parses
OnMessage(f) ==
    /\ eventSource = "open"
    /\ HandleSSEMessage(f)
    /\ UNCHANGED <<requestIdCounter, callId, post, connVars, callVars, logVars, beatVars, unifiedVars, n8nVars>>

\* a faulty variant: the parse error leaves the handler and ends the stream
OnMalformedMessageFatal ==
    /\ eventSource = "open"
    /\ parseErrors < MaxMalformed
    /\ parseErrors' = parseErrors + 1
    /\ eventSource' = "closed"
    /\ connected' = FALSE
    /\ UNCHANGED <<reqVars, retries, errorCount, reconnectAttempts, reconnectTimer,
                   heartbeatTimer, callVars, emitVars, beatVars, unifiedVars, n8nVars>>

\* eventSource.onmessage with a payload JSON.parse rejects: logged, dropped
OnMalformedMessage ==
    /\ eventSource = "open"
    /\ parseErrors < MaxMalformed
    /\ parseErrors' = parseErrors + 1
    /\ UNCHANGED <<reqVars, connVars, callVars, emitVars, beatVars, unifiedVars, n8nVars>>

\* ------------------------------------------------------ reconnect supervisor
Min(a, b) == IF a < b THEN a ELSE b

RECURSIVE Pow2(_)
\* Math.pow(2, n) for n >= 0
Pow2(n) == IF n = 0 THEN 1 ELSE 2 * Pow2(n - 1)

\* a faulty variant: the delay grows linearly with the attempt count
BackoffLinear(attempts) == Min(BaseDelay * (attempts + 1), MaxDelay)

\* Math.min(1000 * Math.pow(2, reconnectAttempts), 30000)
Backoff(attempts) == Min(BaseDelay * Pow2(attempts), MaxDelay)

\* a faulty variant: the comparison with the ceiling is inclusive
ScheduleReconnectInclusive ==
    IF reconnectAttempts <= retries THEN Backoff(reconnectAttempts) ELSE NoTimer

\* scheduleReconnect(): the timer it leaves armed (an earlier one is cleared
\* on both branches; on the else branch only the log line is written)
ScheduleReconnect ==
    IF reconnectAttempts < retries THEN Backoff(reconnectAttempts) ELSE NoTimer

\* setupEventSource(): the old stream, if any, is closed and a new EventSource
\* starts connecting
SetupEventSource == "connecting"

\* stopHeartbeat(): the live intervals it leaves
StopHeartbeat(live) == IF heartbeatTimer THEN live - 1 ELSE live

\* a faulty variant: the earlier interval is not cleared
StartHeartbeatNoClear(live) == live + 1

\* startHeartbeat(): an interval already held is cleared, a new one is set
StartHeartbeat(live) == (IF heartbeatTimer THEN live - 1 ELSE live) + 1

\* eventSource.onopen
StreamOpen ==
    /\ eventSource = "connecting"
    /\ eventSource' = "open"
    /\ connected' = TRUE
    /\ errorCount' = 0
    /\ reconnectAttempts' = 0
    /\ heartbeatTimer' = TRUE
    /\ \E now \in HeartbeatClock : lastHeartbeat' = now
    /\ liveIntervals' = StartHeartbeat(liveIntervals)
    /\ UNCHANGED <<reqVars, retries, reconnectTimer, callVars, emitVars, logVars, unifiedVars, n8nVars>>

\* a faulty variant: a stream failure clears the table and its deadlines
StreamErrorDropsPending(cap, after) ==
    /\ eventSource \in {"connecting", "open"}
    /\ errorCount < cap
    /\ eventSource' = after
    /\ connected' = FALSE
    /\ errorCount' = errorCount + 1
    /\ reconnectTimer' = ScheduleReconnect
    /\ EmitTo("error", Emit("error"))
    /\ pendingRequests' = <<>>
    /\ timers' = {}
    /\ UNCHANGED <<requestIdCounter, callId, post, promise, metrics, retries, reconnectAttempts,
                   heartbeatTimer, callVars, logVars, beatVars, unifiedVars, n8nVars>>

\* eventSource.onerror followed by the 'error' listener; the EventSource either
\* retries by itself (connecting) or gives up (closed)
StreamError(cap, after) ==
    /\ eventSource \in {"connecting", "open"}
    /\ errorCount < cap
    /\ eventSource' = after
    /\ connected' = FALSE
    /\ errorCount' = errorCount + 1
    /\ reconnectTimer' = ScheduleReconnect
    /\ EmitTo("error", Emit("error"))
    /\ UNCHANGED <<reqVars, retries, reconnectAttempts, heartbeatTimer, callVars, logVars, beatVars, unifiedVars, n8nVars>>

\* the reconnect timer fires
ReconnectFire ==
    /\ reconnectTimer # NoTimer
    /\ reconnectTimer' = NoTimer
    /\ reconnectAttempts' = reconnectAttempts + 1
    /\ eventSource' = SetupEventSource
    /\ UNCHANGED <<reqVars, retries, connected, errorCount, heartbeatTimer, callVars, emitVars, logVars, beatVars, unifiedVars, n8nVars>>

\* a faulty variant: the interval's callback emits without reading the flag
HeartbeatTickUnchecked ==
    /\ heartbeatTimer
    /\ EmitTo("heartbeat", Emit("heartbeat"))
    /\ \E now \in HeartbeatClock : lastHeartbeat' = now
    /\ UNCHANGED <<reqVars, connVars, callVars, logVars, liveIntervals, unifiedVars, n8nVars>>

\* the heartbeat interval ticks
HeartbeatTick ==
    /\ heartbeatTimer
    /\ IF connected
       THEN /\ \E now \in HeartbeatClock : lastHeartbeat' = now
            /\ EmitTo("heartbeat", Emit("heartbeat"))
       ELSE UNCHANGED <<emitVars, lastHeartbeat>>
    /\ UNCHANGED <<reqVars, connVars, callVars, logVars, liveIntervals, unifiedVars, n8nVars>>

\* the listeners of the named stream events 'notification' and 'log'
NamedEvent(name) ==
    /\ eventSource = "open"
    /\ EmitTo(name, Emit(name))
    /\ UNCHANGED <<reqVars, connVars, callVars, logVars, beatVars, unifiedVars, n8nVars>>

\* a faulty variant: disconnect() cancels the deadline timers and completes nobody
DisconnectCancelsDeadlines ==
    /\ heartbeatTimer' = FALSE
    /\ reconnectTimer' = NoTimer
    /\ eventSource' = "null"
    /\ connected' = FALSE
    /\ timers' = {}
    /\ staleConnect' = {c \in ConnectCalls : connectCall[c].pc = "probing"}
    /\ UNCHANGED <<requestIdCounter, callId, pendingRequests, post, promise, metrics,
                   retries, errorCount, reconnectAttempts, connectCall, connTimeout,
                   pollTimer, emitVars, logVars, lastHeartbeat, unifiedVars, n8nVars>>
    /\ liveIntervals' = StopHeartbeat(liveIntervals)

\* disconnect(): no await inside, so it runs to completion
Disconnect ==
    /\ heartbeatTimer' = FALSE
    /\ reconnectTimer' = NoTimer
    /\ eventSource' = "null"
    /\ connected' = FALSE
    /\ staleConnect' = {c \in ConnectCalls : connectCall[c].pc = "probing"}
    /\ UNCHANGED <<reqVars, retries, errorCount, reconnectAttempts, connectCall,
                   connTimeout, pollTimer, emitVars, logVars, lastHeartbeat, unifiedVars, n8nVars>>
    /\ liveIntervals' = StopHeartbeat(liveIntervals)

\* ------------------------------------------------------------------ connect
Idle == [pc |-> "idle", error |-> Absent]
Probing == [pc |-> "probing", error |-> Absent]
Waiting == [pc |-> "waiting", error |-> Absent]
ConnectResolved == [pc |-> "resolved", error |-> Absent]
ConnectRejected(m) == [pc |-> "rejected", error |-> m]
ConnectPending(c) == connectCall[c].pc \in {"probing", "waiting"}

\* connect() up to its first await: GET /health is issued
ConnectCallStart(c) ==
    /\ connectCall[c] = Idle
    /\ connectCall' = [connectCall EXCEPT ![c] = Probing]
    /\ UNCHANGED <<reqVars, connVars, connTimeout, pollTimer, staleConnect, emitVars, logVars, beatVars, unifiedVars, n8nVars>>

\* the probe fails (axios rejects) or answers a 2xx other than 200: connect() throws
ProbeFailed(c, m) ==
    /\ connectCall[c] = Probing
    /\ connectCall' = [connectCall EXCEPT ![c] = ConnectRejected(m)]
    /\ staleConnect' = staleConnect \ {c}
    /\ UNCHANGED <<reqVars, connVars, connTimeout, pollTimer, emitVars, logVars, beatVars, unifiedVars, n8nVars>>

\* a faulty variant: checkConnection resolves without looking at the flag
CheckConnectionBlind(c, armed) ==
    /\ connTimeout' = armed \ {c}
    /\ pollTimer' = pollTimer \ {c}
    /\ connectCall' = [connectCall EXCEPT ![c] =
                          IF @.pc \in {"probing", "waiting"} THEN ConnectResolved ELSE @]

\* checkConnection() of call c; armed: the 10 s timers armed when it runs
CheckConnection(c, armed) ==
    IF connected
    THEN /\ connTimeout' = armed \ {c}
         /\ pollTimer' = pollTimer \ {c}
         /\ connectCall' = [connectCall EXCEPT ![c] =
                               IF @.pc \in {"probing", "waiting"} THEN ConnectResolved ELSE @]
    ELSE /\ connTimeout' = armed
         /\ pollTimer' = pollTimer \cup {c}
         /\ connectCall' = [connectCall EXCEPT ![c] =
                               IF @.pc = "probing" THEN Waiting ELSE @]

\* the probe answers 200: setupEventSource(), the 10 s timer, the first checkConnection()
ProbeOk(c) ==
    /\ connectCall[c] = Probing
    /\ eventSource' = SetupEventSource
    /\ CheckConnection(c, connTimeout \cup {c})
    /\ staleConnect' = staleConnect \ {c}
    /\ UNCHANGED <<reqVars, retries, connected, errorCount, reconnectAttempts,
                   reconnectTimer, heartbeatTimer, emitVars, logVars, beatVars, unifiedVars, n8nVars>>

\* the 100 ms timer fires: checkConnection() again
Poll(c) ==
    /\ c \in pollTimer
    /\ CheckConnection(c, connTimeout)
    /\ UNCHANGED <<reqVars, connVars, staleConnect, emitVars, logVars, beatVars, unifiedVars, n8nVars>>

\* the 10 s timer fires: reject(new Error('SSE connection timeout'))
ConnTimeoutFire(c) ==
    /\ c \in connTimeout
    /\ connTimeout' = connTimeout \ {c}
    /\ connectCall' = [connectCall EXCEPT ![c] =
                          IF @.pc = "waiting"
                          THEN ConnectRejected("SSE connection timeout") ELSE @]
    /\ UNCHANGED <<reqVars, connVars, pollTimer, staleConnect, emitVars, logVars, beatVars, unifiedVars, n8nVars>>

\* ---------------------------------------------------------- unified client
\* ClickUpMCPClient.  Its three sub-clients are opaque here: the model records
\* which of them each call is handed to, a sub-client's connect() may fail.
SubClients == {"httpClient", "sseClient", "n8nClient"}
\* the values of the type ClickUpMCPTransport
Transports == {"http", "sse", "stdio", "n8n", "webhook"}
\* config.transport as the constructor may find it: a value of the type or undefined
ConfigTransports == Transports \cup {"undefined"}
SwitchCalls == 1..MaxSwitch
\* the switchTransport calls made next to the other methods of the client
ClientSwitchCalls == 1..MaxClientSwitch
Operations == {"getTasks", "getSpaces"}
N8NMethods == {"createTaskFromN8N", "registerWebhookHandler"}
ListenerMethods == {"on", "off"}

\* this.config.transport || 'http'
ConstructorTransport(cfg) == IF cfg = "undefined" THEN "http" ELSE cfg

\* a faulty variant: 'webhook' falls through to the default branch
GetActiveClientNoWebhook(t) ==
    CASE t = "sse" -> "sseClient"
      [] t = "n8n" -> "n8nClient"
      [] OTHER -> "httpClient"

\* getActiveClient(): the switch over this.transport
GetActiveClient(t) ==
    CASE t = "sse" -> "sseClient"
      [] t \in {"n8n", "webhook"} -> "n8nClient"
      [] OTHER -> "httpClient"

\* the if-chain of connect() and of disconnect()
ConnectTarget(t) ==
    IF t = "n8n" \/ t = "webhook" THEN "n8nClient"
    ELSE IF t = "sse" THEN "sseClient"
    ELSE "httpClient"

NoCall == [method |-> "none", target |-> "none", threw |-> FALSE]
Delegated(m, target) == [method |-> m, target |-> target, threw |-> FALSE]
Thrown(m) == [method |-> m, target |-> "none", threw |-> TRUE]
SwitchIdle == [pc |-> "idle", to |-> "none"]

\* an operation: return this.activeClient.op(...)
Operation(op) ==
    /\ lastCall' = Delegated(op, activeClient)
    /\ UNCHANGED <<n8nVars, sseVars, transport, activeClient, switchCall, clientConnected>>

\* an N8N-only method: delegates if activeClient instanceof ClickUpMCPN8NClient
N8NMethod(m) ==
    /\ lastCall' = IF activeClient = "n8nClient" THEN Delegated(m, activeClient) ELSE Thrown(m)
    /\ UNCHANGED <<n8nVars, sseVars, transport, activeClient, switchCall, clientConnected>>

\* on() / off(): delegates if activeClient instanceof ClickUpMCPSSEClient
ListenerMethod(m) ==
    /\ lastCall' = IF activeClient = "sseClient" THEN Delegated(m, activeClient) ELSE Thrown(m)
    /\ UNCHANGED <<n8nVars, sseVars, transport, activeClient, switchCall, clientConnected>>

\* what a sub-client's connect() and disconnect() leave behind
SubConnect(target, ok) == IF ok THEN clientConnected \cup {target} ELSE clientConnected
SubDisconnect(target) == clientConnected \ {target}

\* connect() and disconnect() called directly; the sub-client's connect() may fail
UnifiedConnect ==
    /\ lastCall' = Delegated("connect", ConnectTarget(transport))
    /\ \E ok \in BOOLEAN : clientConnected' = SubConnect(ConnectTarget(transport), ok)
    /\ UNCHANGED <<n8nVars, sseVars, transport, activeClient, switchCall>>

UnifiedDisconnect ==
    /\ lastCall' = Delegated("disconnect", ConnectTarget(transport))
    /\ clientConnected' = SubDisconnect(ConnectTarget(transport))
    /\ UNCHANGED <<n8nVars, sseVars, transport, activeClient, switchCall>>

\* switchTransport(t) up to its first await: return at once, or disconnect()
SwitchTransport(s, t) ==
    /\ switchCall[s] = SwitchIdle
    /\ IF transport = t
       THEN /\ switchCall' = [switchCall EXCEPT ![s] = [pc |-> "returned", to |-> t]]
            /\ UNCHANGED <<lastCall, clientConnected>>
       ELSE /\ switchCall' = [switchCall EXCEPT ![s] = [pc |-> "disconnecting", to |-> t]]
            /\ lastCall' = Delegated("disconnect", ConnectTarget(transport))
            /\ clientConnected' = SubDisconnect(ConnectTarget(transport))
    /\ UNCHANGED <<n8nVars, sseVars, transport, activeClient>>

\* disconnect() has settled (its errors are swallowed): the two assignments,
\* then connect() up to its await
SwitchAssign(s) ==
    /\ switchCall[s].pc = "disconnecting"
    /\ transport' = switchCall[s].to
    /\ activeClient' = GetActiveClient(switchCall[s].to)
    /\ lastCall' = Delegated("connect", ConnectTarget(switchCall[s].to))
    /\ switchCall' = [switchCall EXCEPT ![s].pc = "connecting"]
    /\ UNCHANGED <<n8nVars, sseVars, clientConnected>>

\* connect() has settled: switchTransport returns, or throws what connect() threw
SwitchSettle(s, ok) ==
    /\ switchCall[s].pc = "connecting"
    /\ switchCall' = [switchCall EXCEPT ![s].pc = IF ok THEN "returned" ELSE "threw"]
    /\ clientConnected' = SubConnect(ConnectTarget(switchCall[s].to), ok)
    /\ UNCHANGED <<n8nVars, sseVars, transport, activeClient, lastCall>>

\* --------------------------------------------------------------- N8N client
\* ClickUpMCPN8NClient.  Its HTTP and SSE sub-clients are opaque here but for
\* the listener array of the SSE client's 'notification' event.
TriggerIds == {"task_update", "time_tracking", "comment_added", "attachment_uploaded",
               "status_changed"}
\* the data.type values each listener of setupSSEEventListeners answers to
TriggerTypes(id) ==
    CASE id = "task_update" -> {"task_updated", "task_created"}
      [] id = "time_tracking" -> {"time_entry_added", "time_entry_updated"}
      [] id = "comment_added" -> {"comment_added"}
      [] id = "attachment_uploaded" -> {"attachment_uploaded"}
      [] id = "status_changed" -> {"status_changed"}
NotificationTypes ==
    {"task_updated", "task_created", "time_entry_added", "time_entry_updated",
     "comment_added", "attachment_uploaded", "status_changed", "list_created"}
NoNotification == [type |-> "none", invoked |-> <<>>]

\* setupSSEEventListeners(): five sseClient.on('notification', ...) in this order
SetupSSEEventListeners(arr) ==
    OnArray(OnArray(OnArray(OnArray(OnArray(arr,
        "task_update"), "time_tracking"), "comment_added"), "attachment_uploaded"),
        "status_changed")

\* triggerWorkflow(id, data) reached from the listeners of one notification:
\* the listeners run in array order, each calls triggerWorkflow when data.type
\* is one of its types, and triggerWorkflow calls the handler if there is one
TriggerWorkflow(arr, type) ==
    SelectSeq(arr, LAMBDA id : type \in TriggerTypes(id) /\ id \in workflowTriggers)

\* connect(): both sub-clients connect, then setupSSEEventListeners(); a
\* failing sub-client makes connect() throw before the listeners are set up
N8NConnect(ok) ==
    /\ Len(n8nListeners) < Cardinality(TriggerIds) * MaxN8NConnect
    /\ IF ok
       THEN /\ n8nListeners' = SetupSSEEventListeners(n8nListeners)
            /\ n8nConnected' = TRUE
       ELSE UNCHANGED <<n8nListeners, n8nConnected>>
    /\ UNCHANGED <<workflowTriggers, n8nTriggered, sseVars, unifiedVars>>

\* disconnect(): both sub-clients disconnect; no listener is removed
N8NDisconnect ==
    /\ n8nConnected' = FALSE
    /\ UNCHANGED <<n8nListeners, workflowTriggers, n8nTriggered, sseVars, unifiedVars>>

RegisterWorkflowTrigger(id) ==
    /\ workflowTriggers' = workflowTriggers \cup {id}
    /\ UNCHANGED <<n8nConnected, n8nListeners, n8nTriggered, sseVars, unifiedVars>>

UnregisterWorkflowTrigger(id) ==
    /\ workflowTriggers' = workflowTriggers \ {id}
    /\ UNCHANGED <<n8nConnected, n8nListeners, n8nTriggered, sseVars, unifiedVars>>

\* the SSE client emits one 'notification' event with data.type = type
N8NNotification(type) ==
    /\ n8nConnected
    /\ n8nTriggered' = [type |-> type, invoked |-> TriggerWorkflow(n8nListeners, type)]
    /\ UNCHANGED <<n8nConnected, n8nListeners, workflowTriggers, sseVars, unifiedVars>>

\* ------------------------------------------------------------ specification
InitN8N ==
    /\ n8nConnected = FALSE
    /\ n8nListeners = <<>>
    /\ workflowTriggers = {}
    /\ n8nTriggered = NoNotification

ProbeErrors == {"Network Error", "Health check failed with status: 204"}
StreamAfterError == {"connecting", "closed"}
NamedEvents == {"notification", "log"}

InitReq ==
    /\ requestIdCounter = 0
    /\ callId = [n \in Calls |-> NoId]
    /\ pendingRequests = <<>>
    /\ timers = {}
    /\ post = [n \in Calls |-> "none"]
    /\ promise = [n \in Calls |-> Unsent]
    /\ metrics = [total |-> 0, ok |-> 0, failed |-> 0]

InitConn ==
    /\ eventSource = "null"
    /\ connected = FALSE
    /\ errorCount = 0
    /\ reconnectAttempts = 0
    /\ reconnectTimer = NoTimer
    /\ heartbeatTimer = FALSE
    /\ lastHeartbeat = NoHeartbeat
    /\ liveIntervals = 0
    /\ connectCall = [c \in ConnectCalls |-> Idle]
    /\ connTimeout = {}
    /\ pollTimer = {}
    /\ staleConnect = {}
    /\ lastEmit = NoEmit
    /\ eventListeners = [e \in EventNames |-> <<>>]
    /\ lastDispatch = NoDispatch
    /\ parseErrors = 0

\* the state the ClickUpMCPClient constructor leaves for config.transport = cfg
InitUnified(cfg) ==
    /\ transport = ConstructorTransport(cfg)
    /\ activeClient = GetActiveClient(ConstructorTransport(cfg))
    /\ switchCall = [s \in SwitchCalls |-> SwitchIdle]
    /\ lastCall = NoCall
    /\ clientConnected = {}

\* the state the constructors leave for config = {retries: r}
InitWith(r) == InitReq /\ InitConn /\ retries = r /\ InitUnified("undefined") /\ InitN8N

RequestNext(clock, max) ==
    \/ \E now \in clock : SendRequest(now, max)
    \/ \E n \in Calls : TimeoutFire(n)
    \/ \E n \in Calls : PostOk(n)
    \/ \E n \in Calls, m \in PostErrors : PostFail(n, m)
    \/ \E f \in Frames : OnMessage(f)

StreamNext(cap) ==
    \/ StreamOpen
    \/ \E after \in StreamAfterError : StreamError(cap, after)
    \/ ReconnectFire
    \/ Disconnect

EventNext ==
    \/ HeartbeatTick
    \/ \E name \in NamedEvents : NamedEvent(name)

ConnectNext(callers) ==
    \/ \E c \in callers : ConnectCallStart(c)
    \/ \E c \in callers, m \in ProbeErrors : ProbeFailed(c, m)
    \/ \E c \in callers : ProbeOk(c)
    \/ \E c \in callers : Poll(c)
    \/ \E c \in callers : ConnTimeoutFire(c)

\* requests against one connect() call, the stream opening and disconnect()
Init == InitWith(MainRetries)
Next == RequestNext({12}, MaxReq) \/ StreamOpen \/ Disconnect \/ ConnectNext({1})
Spec == Init /\ [][Next]_vars

\* fewer calls against the stream's whole life (errors, reconnects), every
\* armed deadline timer eventually firing
NextFair == RequestNext({12}, MaxReqFair) \/ StreamNext(MaxErrors) \/ ConnectNext({1})
FairSpec == Init /\ [][NextFair]_vars /\ \A n \in Calls : WF_vars(TimeoutFire(n))

\* id generation under a clock that repeats and steps back
NextIds == RequestNext(Clock, MaxReq) \/ ConnectNext({1}) \/ StreamOpen
SpecIds == Init /\ [][NextIds]_vars

\* the connection alone: overlapping connect() calls, any retry ceiling
InitConnection == \E r \in RetryChoices : InitWith(r)
NextConnection == StreamNext(MaxErrorsBackoff) \/ EventNext \/ ConnectNext(ConnectCalls)
SpecConnection == InitConnection /\ [][NextConnection]_vars

\* the same with fewer stream errors, the probe eventually answering and the
\* 10 s timer eventually firing
NextConnectionFair == StreamNext(MaxErrors) \/ EventNext \/ ConnectNext(ConnectCalls)
FairSpecConnection ==
    /\ InitConnection
    /\ [][NextConnectionFair]_vars
    /\ \A c \in ConnectCalls : WF_vars(ConnTimeoutFire(c))
    /\ \A c \in ConnectCalls : WF_vars(ProbeOk(c) \/ \E m \in ProbeErrors : ProbeFailed(c, m))

\* the listeners: on() and off() around the events of an open stream
ListenerNext ==
    \/ \E e \in NamedEvents, l \in Listeners : On(e, l)
    \/ \E e \in NamedEvents, l \in Listeners : Off(e, l)
NextListeners == ListenerNext \/ EventNext \/ ConnectNext({1}) \/ StreamOpen
SpecListeners == Init /\ [][NextListeners]_vars

\* the frame handler with payloads that do not parse
NextFrames == RequestNext({12}, MaxReq) \/ OnMalformedMessage \/ ConnectNext({1}) \/ StreamOpen
SpecFrames == Init /\ [][NextFrames]_vars

\* the unified client: operations and overlapping switchTransport() calls
InitClient ==
    \E cfg \in ConfigTransports :
        InitReq /\ InitConn /\ retries = DefaultRetries /\ InitUnified(cfg) /\ InitN8N
NextClient ==
    \/ \E op \in Operations : Operation(op)
    \/ \E m \in N8NMethods : N8NMethod(m)
    \/ \E m \in ListenerMethods : ListenerMethod(m)
    \/ UnifiedConnect
    \/ UnifiedDisconnect
    \/ \E s \in ClientSwitchCalls, t \in Transports : SwitchTransport(s, t)
    \/ \E s \in ClientSwitchCalls : SwitchAssign(s)
    \/ \E s \in ClientSwitchCalls, ok \in BOOLEAN : SwitchSettle(s, ok)
SpecClient == InitClient /\ [][NextClient]_vars

\* switchTransport calls alone, on a client whose connect() has completed or
\* has never been called
InitSwitch ==
    /\ InitReq /\ InitConn /\ retries = DefaultRetries /\ InitN8N
    /\ \E cfg \in ConfigTransports :
          /\ transport = ConstructorTransport(cfg)
          /\ activeClient = GetActiveClient(ConstructorTransport(cfg))
    /\ switchCall = [s \in SwitchCalls |-> SwitchIdle]
    /\ lastCall \in {NoCall, Delegated("connect", ConnectTarget(transport))}
    /\ clientConnected = IF lastCall = NoCall THEN {} ELSE {ConnectTarget(transport)}
NextSwitch ==
    \/ \E s \in SwitchCalls, t \in Transports : SwitchTransport(s, t)
    \/ \E s \in SwitchCalls : SwitchAssign(s)
    \/ \E s \in SwitchCalls, ok \in BOOLEAN : SwitchSettle(s, ok)
SpecSwitch == InitSwitch /\ [][NextSwitch]_vars

\* the N8N client alone
NextN8N ==
    \/ \E ok \in BOOLEAN : N8NConnect(ok)
    \/ N8NDisconnect
    \/ \E id \in TriggerIds : RegisterWorkflowTrigger(id)
    \/ \E id \in TriggerIds : UnregisterWorkflowTrigger(id)
    \/ \E type \in NotificationTypes : N8NNotification(type)
SpecN8N == Init /\ [][NextN8N]_vars

\* ------------------------------------------------------------------ claims
Settled(n) == promise[n].state \in {"resolved", "rejected"}
Registered(id) == id \in DOMAIN pendingRequests
\* the result a frame gives the caller it completes
FrameOutcome(f) == IF f.error = Null THEN ResolvedOk(f.result) ELSE ResolvedFail(f.error)

\* C1: the promise sendRequest returns is never rejected; every outcome, the
\* elapsed deadline included, is a resolved result object.
C1_NeverRejects ==
    \A n \in Calls : promise[n].state # "rejected"

\* C2: when disconnect() returns the pending-request table is empty and no
\* deadline timer is left armed.
C2_DisconnectDrains ==
    [][Disconnect => (DOMAIN pendingRequests' = {} /\ timers' = {})]_vars

\* C3: a frame whose id is in the table cancels that entry's deadline timer,
\* removes the entry and completes its caller with the frame's outcome
\* (success with frame.result, or failure with frame.error.message); every
\* other entry, timer and caller is left as it was.
C3_MatchedFrameCompletes ==
    [][\A f \in Frames :
        (OnMessage(f) /\ Matches(f)) =>
            LET n == pendingRequests[f.id]
            IN /\ n \notin timers'
               /\ ~Registered(f.id)'
               /\ promise'[n] = FrameOutcome(f)
               /\ \A m \in Calls \ {n} :
                    /\ promise'[m] = promise[m]
                    /\ (m \in timers') = (m \in timers)
               /\ \A id \in (DOMAIN pendingRequests) \ {f.id} :
                    /\ Registered(id)'
                    /\ pendingRequests'[id] = pendingRequests[id]]_vars

C3_Witness ==
    \E n \in Calls, m \in Calls :
        /\ promise[n] = ResolvedOk("spaces")
        /\ n \notin timers
        /\ ~Registered(callId[n])
        /\ promise[m].state = "pending"
        /\ m \in timers
        /\ Registered(callId[m])

\* a settled call has no armed deadline timer and no entry in the table
C4_SettledIsQuiet ==
    \A n \in Calls : Settled(n) => (n \notin timers /\ ~Registered(callId[n]))

\* a settled outcome is kept; a completing event on a waiting call fixes it
C4_FirstEventWins ==
    \A n \in Calls :
        /\ Settled(n) => promise'[n] = promise[n]
        /\ promise[n].state = "pending" =>
            /\ TimeoutFire(n) => promise'[n] = RejectedP("Request timeout")
            /\ \A m \in PostErrors : PostFail(n, m) => promise'[n] = ResolvedFail(m)
            /\ \A f \in Frames :
                 (OnMessage(f) /\ f.id = callId[n]) => promise'[n] = FrameOutcome(f)

C5_EventuallySettles ==
    \A n \in Calls : (promise[n].state = "pending") ~> Settled(n)

C5_Witness ==
    \E n \in Calls :
        /\ promise[n] = RejectedP("Request timeout")
        /\ post[n] = "ok"
        /\ connectCall[1] = ConnectResolved
        /\ eventSource = "null"
        /\ reconnectAttempts = retries

\* after a POST failure: no armed deadline timer, no entry, a settled caller
C6_AfterPostFailure ==
    \A n \in Calls :
        post[n] = "failed" => (n \notin timers /\ ~Registered(callId[n]) /\ Settled(n))

\* the step of the .catch handler
C6_PostFailureStep ==
    \A n \in Calls, m \in PostErrors :
        PostFail(n, m) =>
            /\ n \notin timers'
            /\ ~Registered(callId[n])'
            /\ Registered(callId[n]) => promise'[n] = ResolvedFail(m)

\* C6: a failed POST fails its request at once: the entry is removed, the
\* deadline timer is cancelled and a caller still waiting is resolved with
\* success = false and the send error's message; afterwards the deadline
\* timer of that request is never armed again.
C6_PostFailureFailsAtOnce ==
    []C6_AfterPostFailure /\ [][C6_PostFailureStep]_vars

C6_Witness ==
    \E n \in Calls :
        /\ post[n] = "failed"
        /\ promise[n] = ResolvedFail("Network Error")
        /\ metrics.failed >= 1

\* C7: a frame whose id matches no entry (no id, an unknown id, the id of a
\* request already timed out or completed) completes no caller, leaves the
\* table and the timers unchanged and is emitted as a 'message' event.
C7_UnsolicitedFrame ==
    [][\A f \in Frames :
        (OnMessage(f) /\ ~Matches(f)) =>
            /\ UNCHANGED <<pendingRequests, timers, promise>>
            /\ lastEmit' = EmitFrame(f)]_vars

C7_Witness ==
    \E n \in Calls :
        /\ promise[n] = RejectedP("Request timeout")
        /\ lastEmit = [event |-> "message", id |-> callId[n],
                       error |-> Null, result |-> "spaces"]

\* C8: the ids one client generates are pairwise distinct, so registering a
\* request never overwrites an entry: while a call's deadline timer is armed
\* the table holds that call's own entry under its id.
C8_IdsUnique ==
    /\ \A m \in 1..requestIdCounter, n \in 1..requestIdCounter :
         m # n => callId[m] # callId[n]
    /\ \A n \in timers : Registered(callId[n]) /\ pendingRequests[callId[n]] = n

C8_Witness ==
    /\ callId[1] = GenerateRequestId(12, 1)
    /\ callId[2] = GenerateRequestId(12, 2)
    /\ timers = {1, 2}
    /\ Cardinality(DOMAIN pendingRequests) = 2

\* C9 as stated: the k-th consecutive failure since the last open (k counted
\* from 0, which is errorCount before the failure) schedules a reconnect after
\* min(1000 * 2^k, 30000) ms while k < retries, and none afterwards.
C9_DelayByFailureCount ==
    [][\A after \in StreamAfterError :
        StreamError(MaxErrorsBackoff, after) =>
            reconnectTimer' = IF errorCount < retries
                              THEN Min(1000 * Pow2(errorCount), 30000)
                              ELSE NoTimer]_vars

\* the delays of the scenario retries = 5, by reconnectAttempts
C9_Schedule == <<1000, 2000, 4000, 8000, 16000, NoTimer>>

\* the step of onerror
C9_FailureStep ==
    \A after \in StreamAfterError :
        StreamError(MaxErrorsBackoff, after) =>
            /\ reconnectTimer' = IF reconnectAttempts < retries
                                 THEN Min(1000 * Pow2(reconnectAttempts), 30000)
                                 ELSE NoTimer
            /\ retries = 5 => reconnectTimer' = C9_Schedule[reconnectAttempts + 1]

\* C9 amended: the exponent is reconnectAttempts, the number of reconnect
\* timers that fired since the last open.  A failure schedules a reconnect
\* after min(1000 * 2^reconnectAttempts, 30000) ms while reconnectAttempts <
\* retries and none once it has reached retries; with retries = 5 the delays
\* for reconnectAttempts = 0..4 are 1000, 2000, 4000, 8000, 16000.
C9_DelayByAttemptCount ==
    [](reconnectAttempts \in 0..retries) /\ [][C9_FailureStep]_vars

C9_Witness ==
    /\ retries = 5
    /\ errorCount = 6
    /\ reconnectAttempts = 5
    /\ reconnectTimer = NoTimer
    /\ lastEmit = Emit("error")

\* how a step may settle a connect() call
C10_ConnectStep ==
    \A c \in ConnectCalls :
        /\ (ConnectPending(c) /\ connectCall'[c].pc = "resolved") => (connected /\ connected')
        /\ (connectCall[c].pc = "waiting" /\ connectCall'[c].pc = "rejected") =>
              (ConnTimeoutFire(c) /\ connectCall'[c].error = "SSE connection timeout")
        /\ (ConnTimeoutFire(c) /\ connectCall[c].pc = "waiting") =>
              connectCall'[c] = ConnectRejected("SSE connection timeout")

C11_ConnectKeepsStream ==
    [][\A c \in ConnectCalls :
        (ProbeOk(c) /\ eventSource \in {"connecting", "open"}) =>
            eventSource' = eventSource]_vars

\* C12: once disconnect() has returned and as long as no connect() invoked
\* since then is awaiting its probe, the stream stays closed, the transport
\* stays not connected and no reconnect is scheduled, whatever was in flight
\* when disconnect() ran.
C12_DisconnectHolds ==
    [][(/\ eventSource = "null"
        /\ \A c \in ConnectCalls : connectCall[c].pc = "probing" => c \in staleConnect) =>
            (eventSource' = "null" /\ ~connected' /\ reconnectTimer' = NoTimer)]_vars

\* a step that hands a 'heartbeat' event to the listeners
C13_HeartbeatStep == HeartbeatTick /\ lastEmit' = Emit("heartbeat") /\ lastEmit' # lastEmit

C14_FailuresDriveReconnect ==
    [][/\ \A after \in StreamAfterError :
            (StreamError(MaxErrorsBackoff, after) /\ reconnectAttempts < retries) =>
                reconnectTimer' # NoTimer
       /\ \A c \in ConnectCalls, m \in ProbeErrors :
            ProbeFailed(c, m) =>
                /\ connectCall'[c].pc # "rejected"
                /\ reconnectAttempts < retries => reconnectTimer' # NoTimer]_vars

\* C15: the stream failure that finds the attempt count at the configured
\* maximum fails every connect() call still waiting for the open signal.
C15_TerminalFailureSurfaces ==
    [][\A after \in StreamAfterError :
        (StreamError(MaxErrorsBackoff, after) /\ reconnectAttempts >= retries) =>
            \A c \in ConnectCalls :
                connectCall[c].pc = "waiting" => connectCall'[c].pc = "rejected"]_vars

\* the array with every throwing listener replaced by one that returns
C16_Calm(arr) == [i \in 1..Len(arr) |-> IF arr[i] = "thrower" THEN "plain" ELSE arr[i]]

\* the step of an emit, compared with the same emit had no listener thrown
C16_EmitStep ==
    \A e \in NamedEvents :
        NamedEvent(e) =>
            LET calm == Dispatch(C16_Calm(eventListeners[e])) IN
            /\ ~lastDispatch'.threw
            /\ C16_Calm(lastDispatch'.invoked) = calm.invoked
            /\ C16_Calm(eventListeners'[e]) = calm.arr
            /\ \A o \in EventNames \ {e} : eventListeners'[o] = eventListeners[o]
            /\ UNCHANGED <<reqVars, connVars, callVars>>

\* C16: a listener that throws during an emit changes nothing about which
\* other listeners of the event are invoked, leaves the listeners of other
\* events alone, and the exception does not leave emit: the stream, the
\* heartbeat timer and the transport state are as if it had returned.
C16_ThrowIsolated == [][C16_EmitStep]_vars

C16_Witness ==
    /\ lastEmit = Emit("notification")
    /\ lastDispatch = [invoked |-> <<"thrower", "plain">>, threw |-> FALSE]
    /\ eventListeners["notification"] = <<"thrower", "plain">>
    /\ eventSource = "open"
    /\ heartbeatTimer

\* C17: every emit invokes each listener registered for the event when the
\* emit starts exactly once, in registration order, also when a listener
\* calls on() or off() during the dispatch.
C17_EachOnceInOrder ==
    [][\A e \in NamedEvents :
        NamedEvent(e) => lastDispatch'.invoked = eventListeners[e]]_vars

\* C18: a frame whose payload does not parse is logged and dropped: the
\* stream stays open, connected keeps its value, no reconnect is scheduled,
\* every pending request and deadline timer is unchanged, the heartbeat timer
\* keeps running and nothing is emitted.
C18_MalformedChangesNothing ==
    [][OnMalformedMessage =>
        /\ eventSource' = "open"
        /\ UNCHANGED <<reqVars, connVars, callVars, emitVars>>]_vars

C18_Witness ==
    /\ parseErrors = 1
    /\ eventSource = "open"
    /\ connected
    /\ heartbeatTimer
    /\ reconnectTimer = NoTimer
    /\ timers = {1}
    /\ Registered(callId[1])
    /\ promise[1] = PendingP

\* C19: every completed sendRequest call has produced a result with exactly
\* one of data / error: data and no error when success is true, a non-empty
\* error message and no data when success is false.
C19_ExactlyOneOfDataError ==
    \A n \in Calls :
        Settled(n) =>
            /\ promise[n].state = "resolved"
            /\ promise[n].success \in {"true", "false"}
            /\ promise[n].success = "true" =>
                  (promise[n].data # Absent /\ promise[n].error = Absent)
            /\ promise[n].success = "false" =>
                  (promise[n].error \notin {Absent, ""} /\ promise[n].data = Absent)

\* the sub-client the claim assigns to a transport
C20_Selected(t) ==
    IF t = "sse" THEN "sseClient"
    ELSE IF t \in {"n8n", "webhook"} THEN "n8nClient"
    ELSE "httpClient"

\* where a step of the unified client hands its call
C20_Step ==
    /\ \A op \in Operations :
         Operation(op) => lastCall' = Delegated(op, C20_Selected(transport))
    /\ \A m \in ListenerMethods :
         ListenerMethod(m) =>
            lastCall' = IF C20_Selected(transport) = "sseClient"
                        THEN Delegated(m, "sseClient") ELSE Thrown(m)
    /\ \A m \in N8NMethods :
         N8NMethod(m) =>
            lastCall' = IF C20_Selected(transport) = "n8nClient"
                        THEN Delegated(m, "n8nClient") ELSE Thrown(m)
    /\ (lastCall' # lastCall /\ lastCall'.method \in {"connect", "disconnect"}) =>
         lastCall'.target = C20_Selected(transport')
    /\ \A s \in SwitchCalls, t \in Transports :
         (SwitchTransport(s, t) /\ transport = t) =>
            /\ switchCall'[s].pc = "returned"
            /\ UNCHANGED <<transport, activeClient, lastCall, sseVars>>

\* C20: the active sub-client is always the one the current transport selects;
\* operations, connect() and disconnect() go to it and to no other, on()/off()
\* and the N8N-only methods throw unless it is of their kind, and
\* switchTransport to the current transport returns without changing anything.
C20_OneActiveClient ==
    /\ [](activeClient \in SubClients /\ activeClient = C20_Selected(transport))
    /\ [][C20_Step]_vars

C20_Witness ==
    /\ transport = "webhook"
    /\ activeClient = "n8nClient"
    /\ switchCall[1] = [pc |-> "returned", to |-> "webhook"]
    /\ lastCall = Thrown("on")

\* C21: the heartbeat timer is armed only while the transport is Connected
\* (stream open, flag up) and the reconnect timer only while the transport
\* waits to reconnect after a stream failure (flag down, stream not open).
C21_TimersScoped ==
    /\ heartbeatTimer => (connected /\ eventSource = "open")
    /\ reconnectTimer # NoTimer => (~connected /\ eventSource # "open")

C22_OpenStep ==
    StreamOpen =>
        /\ connected' /\ eventSource' = "open"
        /\ reconnectAttempts' = 0
        /\ lastHeartbeat' # NoHeartbeat
        /\ heartbeatTimer' /\ liveIntervals' = 1

\* C22: every stream-open signal leaves the transport connected with
\* reconnectAttempts 0, lastHeartbeat set and exactly one heartbeat interval
\* live: an interval already running is replaced, never duplicated.
C22_OpenStartsOneHeartbeat ==
    /\ [](liveIntervals = IF heartbeatTimer THEN 1 ELSE 0)
    /\ [][C22_OpenStep]_vars

\* the stream has opened again after a failure and a reconnect: the counters
\* are back to 0 and one interval is live
C22_Witness ==
    /\ connected /\ heartbeatTimer /\ liveIntervals = 1
    /\ lastHeartbeat # NoHeartbeat
    /\ errorCount = 0 /\ reconnectAttempts = 0
    /\ reconnectTimer = Backoff(1)
    /\ connectCall[1] = ConnectResolved


\* the steps in which setupEventSource() runs
C23_OpensStream == ReconnectFire \/ \E c \in ConnectCalls : ProbeOk(c)

\* C23: no stream is opened without a successful liveness probe immediately
\* before it: a failed probe opens none, and every step that opens a stream,
\* the reconnect timer's included, is the step of a probe that answered 200.
C23_ProbeBeforeStream ==
    /\ [][(\E c \in ConnectCalls, m \in ProbeErrors : ProbeFailed(c, m))
            => UNCHANGED eventSource]_vars
    /\ [][C23_OpensStream => \E c \in ConnectCalls : ProbeOk(c)]_vars


\* the call a frame's id belongs to, while its promise is still pending
C24_Awaited(f) == {n \in Calls : callId[n] = f.id /\ promise[n] = PendingP}

C24_SendStep ==
    \A now \in Clock :
        SendRequest(now, MaxReq) =>
            LET n == requestIdCounter'
            IN /\ post[n] = "none" /\ post'[n] = "inflight"
               /\ callId'[n] \in DOMAIN pendingRequests'
               /\ pendingRequests'[callId'[n]] = n
               /\ n \in timers'

C24_FrameStep ==
    \A f \in Frames :
        (OnMessage(f) /\ C24_Awaited(f) # {}) =>
            /\ Matches(f)
            /\ \A n \in C24_Awaited(f) : promise'[n] = FrameOutcome(f)

\* C24: sendRequest registers the pending entry and its deadline timer in the
\* step that issues the POST, so whenever a POST has been issued and nothing has
\* completed the call its waiter is in the table, and a frame carrying the id of
\* a pending call is always handled by that call's waiter.
C24_RegisteredBeforePost ==
    /\ [](\A n \in Calls :
            promise[n] = PendingP =>
                /\ post[n] # "none"
                /\ Registered(callId[n]) /\ pendingRequests[callId[n]] = n
                /\ n \in timers)
    /\ [][C24_SendStep]_vars
    /\ [][C24_FrameStep]_vars

\* a frame completed a call while the POST that announced it was still in flight
C24_Witness ==
    \E n \in Calls :
        /\ promise[n].state = "resolved" /\ promise[n].success = "true"
        /\ post[n] = "inflight"


\* the steps of the reconnect logic: a stream failure (which schedules the
\* reconnect), the reconnect timer firing (which re-creates the stream) and
\* the stream opening
C25_ReconnectStep ==
    \/ \E after \in StreamAfterError : StreamError(MaxErrors, after)
    \/ ReconnectFire
    \/ StreamOpen

C25_FrameStep ==
    \A f \in Frames :
        (OnMessage(f) /\ Matches(f)) =>
            LET n == pendingRequests[f.id]
            IN /\ promise'[n] = IF promise[n] = PendingP THEN FrameOutcome(f) ELSE promise[n]
               /\ ~Registered(f.id)' /\ n \notin timers'

\* C25: a stream error, the scheduling and the firing of the reconnect timer and
\* the re-creation of the stream change neither the pending table nor any
\* deadline timer nor any promise, and a frame that matches an entry on an open
\* stream completes it.
C25_ReconnectKeepsPending ==
    /\ [][C25_ReconnectStep => UNCHANGED reqVars]_vars
    /\ [][C25_FrameStep]_vars

\* a call is still waiting, with its entry and deadline, on a stream that has
\* failed, been re-created by the reconnect timer and opened again
C25_Witness ==
    \E n \in Calls :
        /\ promise[n] = PendingP /\ Registered(callId[n]) /\ n \in timers
        /\ lastEmit.event = "error"
        /\ reconnectTimer = NoTimer
        /\ eventSource = "open" /\ connected


\* the sendRequest calls whose promise has settled
C26_SettledCalls == {n \in Calls : Settled(n)}

\* C26: the metrics count every settled sendRequest call exactly once:
\* totalRequests is the number of settled calls, and successfulRequests +
\* failedRequests = totalRequests.
C26_MetricsCountSettled ==
    /\ metrics.total = Cardinality(C26_SettledCalls)
    /\ metrics.ok + metrics.failed = metrics.total


\* connect() call c has rejected and no other connect() has been made
C27_OnlyCallRejected(c) ==
    /\ connectCall[c].pc = "rejected"
    /\ \A d \in ConnectCalls \ {c} : connectCall[d] = Idle

\* C27: once connect() has rejected, and until connect() is called again, the
\* transport is idle: no stream exists, no reconnect timer and no polling
\* timer is armed, and the transport is not connected.
C27_RejectedConnectLeavesIdle ==
    \A c \in ConnectCalls :
        C27_OnlyCallRejected(c) =>
            /\ eventSource \notin {"connecting", "open"}
            /\ reconnectTimer = NoTimer
            /\ pollTimer = {}
            /\ ~connected


\* the steps of connect() and disconnect()
C28_ConnectOrDisconnect ==
    \/ Disconnect
    \/ \E c \in ConnectCalls :
          \/ ConnectCallStart(c) \/ ProbeOk(c) \/ Poll(c) \/ ConnTimeoutFire(c)
          \/ \E m \in ProbeErrors : ProbeFailed(c, m)

C28_AttemptsStep ==
    /\ reconnectAttempts' # reconnectAttempts =>
          \/ ReconnectFire /\ reconnectAttempts' = reconnectAttempts + 1
          \/ StreamOpen /\ reconnectAttempts' = 0
    /\ C28_ConnectOrDisconnect => reconnectAttempts' = reconnectAttempts
    /\ \A after \in StreamAfterError :
          (StreamError(MaxErrorsBackoff, after) /\ reconnectAttempts = retries) =>
              /\ reconnectTimer' = NoTimer
              /\ reconnectAttempts' = retries

\* C28: reconnectAttempts stays within 0..retries; only the reconnect timer's
\* firing (+1) and a stream open (back to 0) change it, connect() and
\* disconnect() do not, and a stream failure that finds it at retries schedules
\* no reconnect, also after a new connect().
C28_AttemptsBounded ==
    /\ [](reconnectAttempts >= 0 /\ reconnectAttempts <= retries)
    /\ [][C28_AttemptsStep]_vars

\* the ceiling was reached, connect() was called again and its stream failed:
\* nothing is scheduled and the count is still at the ceiling
C28_Witness ==
    /\ retries = DefaultRetries /\ reconnectAttempts = retries
    /\ connectCall[1].pc = "rejected"
    /\ connectCall[2].pc = "waiting"
    /\ errorCount = DefaultRetries + 2
    /\ reconnectTimer = NoTimer
    /\ lastEmit = Emit("error")


\* no switchTransport call is between its first await and its return
C29_SwitchesComplete ==
    \A s \in SwitchCalls : switchCall[s].pc \in {"idle", "returned", "threw"}

\* C29: once every switchTransport call has completed, overlapping calls and
\* calls whose connect step failed included, no sub-client other than the one
\* the current transport selects is connected.
C29_OnlySelectedConnected ==
    C29_SwitchesComplete => clientConnected \subseteq {C20_Selected(transport)}


\* C30: a 'notification' event invokes the workflow trigger registered for its
\* type at most once, however many times connect() has run on the client.
C30_TriggeredAtMostOnce ==
    Len(n8nTriggered.invoked) <= 1

=============================================================================
